---- MODULE Spec2Model ----
(***************************************************************************)
(* Model of vtki/filters.py: the filter mixins DataSetFilters (clip,       *)
(* slice, threshold) and PointSetFilters (contour).                        *)
(*                                                                         *)
(* Every filter builds a local VTK algorithm object, configures it from    *)
(* its arguments, executes it and wraps the output.  The algorithm object  *)
(* and the outcome of the call are modelled by one record (see NewCall);   *)
(* the dataset the caller owns is the variable mesh.                       *)
(*                                                                         *)
(* Python values of varying shape are tagged records:                      *)
(*   normal       [kind: "str"|"vec", s: characters, v: triple]            *)
(*   origin       [given: BOOLEAN, p: triple]       (given = FALSE: None)  *)
(*   scalars      [given: BOOLEAN, name: STRING]    (given = FALSE: None)  *)
(*   value        [kind: "scalar"|"seq", n: Int, s: Seq(Int)]              *)
(*   isosurfaces  [kind: "int"|"seq"|"other", n: Int, s: Seq(Int)]         *)
(*                ("other": neither int nor iterable, e.g. None or 2.5)    *)
(* A string is the sequence of its characters, so that str.lower() is      *)
(* computed character by character.                                        *)
(*                                                                         *)
(* The outcome of a call is status = "ok" or the error raised:             *)
(*   "UnknownShortcut"        KeyError from NORMALS[...]       (l. 64, 85) *)
(*   "InvalidRange"           RuntimeError 'Value range ...'   (l. 120)    *)
(*   "UnsupportedLocation"    RuntimeError 'Can only contour'  (l. 158)    *)
(*   "InvalidIsosurfaceSpec"  RuntimeError 'isosurfaces not understood'    *)
(*                                                             (l. 169)    *)
(*   "NameError"              read of an unbound name          (l. 164)    *)
(*   "ResolutionError"        raised inside get_scalar         (l. 113,155)*)
(***************************************************************************)
EXTENDS Integers, Sequences, FiniteSets, TLC

VARIABLES mesh, mesh0, last, nobjs

vars == <<mesh, mesh0, last, nobjs>>

\* -------------------------------------------------------------------------
\* Bounds and input sets
\* -------------------------------------------------------------------------

\* longest value / isosurfaces sequence passed to threshold / contour
MaxLen == 3

\* number of output objects created before the model stops calling filters
MaxObjs == 2

\* vtk field association of point data (the literal in `field != 0`)
POINT_DATA == 0

\* vtk field association of cell data
CELL_DATA == 1

Vals == {1, 2}

\* The sequences over Vals of length at most n that repeat with period two:
\* every sequence of length <= 2 (both orders of two distinct values, and a
\* repeated value), and two-valued and constant sequences of every greater
\* length.
RECURSIVE SeqsUpTo(_)
SeqsUpTo(n) ==
    IF n = 0 THEN {<<>>}
    ELSE LET shorter == SeqsUpTo(n - 1)
             longest == {t \in shorter : Len(t) = n - 1}
         IN  shorter \cup
             IF n <= 2 THEN {Append(t, v) : t \in longest, v \in Vals}
             ELSE {Append(t, t[n - 2]) : t \in longest}

ValueSeqs == SeqsUpTo(MaxLen)

NoVec == <<>>

Str(s) == [kind |-> "str", s |-> s, v |-> NoVec]
Vec(v) == [kind |-> "vec", s |-> <<>>, v |-> v]

NormalStrings ==
    { <<"x">>, <<"y">>, <<"z">>, <<"-", "x">>, <<"-", "y">>, <<"-", "z">>,
      <<"X">>, <<"-", "Y">>, <<"-", "Z">>,
      <<"w">>, <<>>, <<"x", "y">>, <<"y", "-">> }

NormalVectors == { <<1, 1, 0>>, <<0, 0, -2>> }

NormalArgs == {Str(s) : s \in NormalStrings} \cup {Vec(v) : v \in NormalVectors}

OriginArgs ==
    { [given |-> FALSE, p |-> NoVec],
      [given |-> TRUE, p |-> <<0, 0, 0>>],
      [given |-> TRUE, p |-> <<4, 5, 6>>] }

ScalarArgs ==
    { [given |-> FALSE, name |-> ""],
      [given |-> TRUE, name |-> "a"],
      [given |-> TRUE, name |-> "b"] }

Preferences == {"point", "cell"}

\* (scalars, preference) as passed together: no name; a name with either
\* preference; a second name with the preference for point data
ArrayArgs ==
    { a \in ScalarArgs \X Preferences :
        \/ a[1].name = "a"
        \/ a[2] = "point" }

ValueArgs ==
    {[kind |-> "scalar", n |-> v, s |-> <<>>] : v \in Vals}
    \cup {[kind |-> "seq", n |-> 0, s |-> s] : s \in ValueSeqs}

IsoArgs ==
    {[kind |-> "int", n |-> v, s |-> <<>>] : v \in Vals}
    \cup {[kind |-> "seq", n |-> 0, s |-> s] : s \in ValueSeqs}
    \cup {[kind |-> "other", n |-> 0, s |-> <<>>]}

\* (compute_normals, compute_gradients, compute_scalars)
ComputeFlags == { <<FALSE, FALSE, TRUE>>, <<TRUE, TRUE, FALSE>> }

\* The datasets a caller may own: arrays is the set of (location, name)
\* pairs attached to it, active the pair currently designated active.
ArraySets ==
    { { <<POINT_DATA, "a">> },
      { <<CELL_DATA, "a">> },
      { <<POINT_DATA, "a">>, <<CELL_DATA, "a">> },
      { <<POINT_DATA, "a">>, <<CELL_DATA, "b">> } }

\* the bounding-box center of a dataset (here told apart by its arrays)
CenterOf(arrs) == IF Cardinality(arrs) = 1 THEN <<1, 2, 3>> ELSE <<0, 0, 7>>

DatasetsWith(arrs) ==
    { [id |-> 0, center |-> CenterOf(arrs), range |-> <<0, 10>>, arrays |-> arrs, active |-> act] :
        act \in arrs }

Datasets == UNION { DatasetsWith(arrs) : arrs \in ArraySets }

\* -------------------------------------------------------------------------
\* Module-level data and helpers
\* -------------------------------------------------------------------------

\* str.lower() on one character
LowerChar(c) ==
    CASE c = "X" -> "x"
      [] c = "Y" -> "y"
      [] c = "Z" -> "z"
      [] c = "W" -> "w"
      [] OTHER -> c

\* str.lower()
lower(s) == [i \in 1..Len(s) |-> LowerChar(s[i])]

NORMALS ==
    (<<"x">> :> <<1, 0, 0>>) @@
    (<<"y">> :> <<0, 1, 0>>) @@
    (<<"z">> :> <<0, 0, 1>>) @@
    (<<"-", "x">> :> <<-1, 0, 0>>) @@
    (<<"-", "y">> :> <<0, -1, 0>>) @@
    (<<"-", "z">> :> <<0, 0, -1>>)

\* vtkPlane with SetNormal and SetOrigin applied
_generate_plane(normal, origin) ==
    << <<normal[1], normal[2], normal[3]>>, <<origin[1], origin[2], origin[3]>> >>

\* The record of one filter call: the arguments, the dataset as the call
\* leaves it, the local algorithm object and the outcome.
\*   alg        class of the algorithm object built ("" = none yet)
\*   input      <<id>> of the object given to SetInputDataObject
\*   plane      <<normal, origin>> given to SetClipFunction / SetCutFunction
\*   insideOut  <<b>> after SetInsideOut(b)
\*   array      <<field, name>> after SetInputArrayToProcess
\*   continuous <<b>> after SetUseContinuousCellRange(b)
\*   modes      the ThresholdBetween / ByLower / ByUpper calls made, in order
\*   invert     <<b>> after SetInvert(b)
\*   compute    <<normals, gradients, scalars>> after the SetCompute* calls
\*   generate   <<n, range>> after GenerateValues(n, range)
\*   ncontours  <<n>> after SetNumberOfContours(n)
\*   values     contour value table after the SetValue(i, val) calls
\*   updates    number of alg.Update() calls
\*   wraps      number of wrap() calls
\*   out        <<id>> of the object returned (<<>> = nothing returned)
NewCall(op, args, dataset) ==
    [ op |-> op, args |-> args, dataset |-> dataset, status |-> "ok",
      alg |-> "", input |-> <<>>, plane |-> <<>>, insideOut |-> <<>>,
      array |-> <<>>, continuous |-> <<>>, modes |-> <<>>, invert |-> <<>>,
      compute |-> <<>>, generate |-> <<>>, ncontours |-> <<>>, values |-> <<>>,
      updates |-> 0, wraps |-> 0, out |-> <<>> ]

\* raise: the call ends with the error, whatever was configured stays unused
Raise(r, err) == [r EXCEPT !.status = err]

\* wrap(obj) of vtki.utilities: the output object in the caller's object model
wrap(obj) == obj

\* alg.Update(); return wrap(alg.GetOutputDataObject(0))
\* Update creates the algorithm's output object, which no one else holds.
UpdateAndWrap(r) ==
    [r EXCEPT !.updates = @ + 1, !.wraps = @ + 1, !.out = <<wrap(nobjs + 1)>>]

\* -------------------------------------------------------------------------
\* Plane-based filters
\* -------------------------------------------------------------------------

\* NormalOf with the lookup made on the string as given (no lower())
NormalOf_CaseSensitive(normal) ==
    IF normal.kind = "str"
    THEN IF normal.s \in DOMAIN NORMALS
         THEN [ok |-> TRUE, v |-> NORMALS[normal.s]]
         ELSE [ok |-> FALSE, v |-> NoVec]
    ELSE [ok |-> TRUE, v |-> normal.v]

\* NormalOf with NORMALS.get(normal.lower(), NORMALS['x']): an unknown
\* string falls back to the default axis
NormalOf_Fallback(normal) ==
    IF normal.kind = "str"
    THEN IF lower(normal.s) \in DOMAIN NORMALS
         THEN [ok |-> TRUE, v |-> NORMALS[lower(normal.s)]]
         ELSE [ok |-> TRUE, v |-> NORMALS[<<"x">>]]
    ELSE [ok |-> TRUE, v |-> normal.v]

\* if isinstance(normal, str): normal = NORMALS[normal.lower()]
\* ok = FALSE: the lookup raised KeyError
NormalOf(normal) ==
    IF normal.kind = "str"
    THEN IF lower(normal.s) \in DOMAIN NORMALS
         THEN [ok |-> TRUE, v |-> NORMALS[lower(normal.s)]]
         ELSE [ok |-> FALSE, v |-> NoVec]
    ELSE [ok |-> TRUE, v |-> normal.v]

\* if origin is None: origin = dataset.center
OriginOf(dataset, origin) ==
    IF ~origin.given THEN dataset.center ELSE origin.p

clip(dataset, normal, origin, invert) ==
    LET r0 == NewCall("clip", [normal |-> normal, origin |-> origin, invert |-> invert], dataset)
        n  == NormalOf(normal)
    IN  IF ~n.ok THEN Raise(r0, "UnknownShortcut")
        ELSE LET plane == _generate_plane(n.v, OriginOf(dataset, origin))
                 r1 == [r0 EXCEPT !.alg = "vtkClipDataSet",
                                  !.input = <<dataset.id>>,
                                  !.plane = plane,
                                  !.insideOut = <<invert>>]
             IN  UpdateAndWrap(r1)

slice(dataset, normal, origin) ==
    LET r0 == NewCall("slice", [normal |-> normal, origin |-> origin], dataset)
        n  == NormalOf(normal)
    IN  IF ~n.ok THEN Raise(r0, "UnknownShortcut")
        ELSE LET plane == _generate_plane(n.v, OriginOf(dataset, origin))
                 r1 == [r0 EXCEPT !.alg = "vtkCutter",
                                  !.input = <<dataset.id>>,
                                  !.plane = plane]
             IN  UpdateAndWrap(r1)

\* -------------------------------------------------------------------------
\* Field-based filters
\* -------------------------------------------------------------------------

\* get_scalar(dataset, name, preference=..., info=True) of vtki.utilities:
\* the location of the array called name; preference decides when a point
\* array and a cell array share the name; a missing array is an error that
\* propagates to the caller.
get_scalar(dataset, name, preference) ==
    LET parr == <<POINT_DATA, name>> \in dataset.arrays
        carr == <<CELL_DATA, name>> \in dataset.arrays
    IN  IF parr /\ carr
        THEN [ok |-> TRUE, field |-> IF preference = "point" THEN POINT_DATA ELSE CELL_DATA]
        ELSE IF parr THEN [ok |-> TRUE, field |-> POINT_DATA]
        ELSE IF carr THEN [ok |-> TRUE, field |-> CELL_DATA]
        ELSE [ok |-> FALSE, field |-> POINT_DATA]

\* dataset.get_data_range(name): (min, max) over the array
get_data_range(dataset, name) == dataset.range

\* if scalars is None: field, scalars = dataset.active_scalar_info
\* else: _, field = get_scalar(dataset, scalars, preference=preference, info=True)
ArrayOf(dataset, scalars, preference) ==
    IF ~scalars.given
    THEN [ok |-> TRUE, field |-> dataset.active[1], name |-> dataset.active[2]]
    ELSE LET g == get_scalar(dataset, scalars.name, preference)
         IN  [ok |-> g.ok, field |-> g.field, name |-> scalars.name]

\* SetThresholdMode with the sense of invert exchanged
SetThresholdMode_Swapped(r, value, invert) ==
    IF value.kind = "seq"
    THEN IF Len(value.s) # 2
         THEN Raise(r, "InvalidRange")
         ELSE [r EXCEPT !.modes = Append(@, <<"between", value.s[1], value.s[2]>>)]
    ELSE IF invert
         THEN [r EXCEPT !.modes = Append(@, <<"upper", value.n>>)]
         ELSE [r EXCEPT !.modes = Append(@, <<"lower", value.n>>)]

\* SetThresholdMode with the length test `len(value) < 2`: a longer sequence
\* is used by its first two elements
SetThresholdMode_AtLeastTwo(r, value, invert) ==
    IF value.kind = "seq"
    THEN IF Len(value.s) < 2
         THEN Raise(r, "InvalidRange")
         ELSE [r EXCEPT !.modes = Append(@, <<"between", value.s[1], value.s[2]>>)]
    ELSE IF invert
         THEN [r EXCEPT !.modes = Append(@, <<"lower", value.n>>)]
         ELSE [r EXCEPT !.modes = Append(@, <<"upper", value.n>>)]

\* SetThresholdMode with the length test made after the algorithm has run
SetThresholdMode_CheckAfterUpdate(r, value, invert) ==
    IF value.kind = "seq"
    THEN IF Len(value.s) # 2
         THEN Raise([r EXCEPT !.updates = @ + 1], "InvalidRange")
         ELSE [r EXCEPT !.modes = Append(@, <<"between", value.s[1], value.s[2]>>)]
    ELSE IF invert
         THEN [r EXCEPT !.modes = Append(@, <<"lower", value.n>>)]
         ELSE [r EXCEPT !.modes = Append(@, <<"upper", value.n>>)]

\* SetThresholdMode with the commented-out alg.SetInvert(invert) of the
\* range branch enabled
SetThresholdMode_SetInvert(r, value, invert) ==
    IF value.kind = "seq"
    THEN IF Len(value.s) # 2
         THEN Raise(r, "InvalidRange")
         ELSE [r EXCEPT !.modes = Append(@, <<"between", value.s[1], value.s[2]>>),
                        !.invert = <<invert>>]
    ELSE IF invert
         THEN [r EXCEPT !.modes = Append(@, <<"lower", value.n>>)]
         ELSE [r EXCEPT !.modes = Append(@, <<"upper", value.n>>)]

\* The value dispatch of threshold: by range for an iterable value, by one
\* bound otherwise.
SetThresholdMode(r, value, invert) ==
    IF value.kind = "seq"
    THEN IF Len(value.s) # 2
         THEN Raise(r, "InvalidRange")
         ELSE [r EXCEPT !.modes = Append(@, <<"between", value.s[1], value.s[2]>>)]
    ELSE IF invert
         THEN [r EXCEPT !.modes = Append(@, <<"lower", value.n>>)]
         ELSE [r EXCEPT !.modes = Append(@, <<"upper", value.n>>)]

threshold(dataset, value, scalars, invert, continuous, preference) ==
    LET r0 == [NewCall("threshold",
                       [value |-> value, scalars |-> scalars, invert |-> invert,
                        continuous |-> continuous, preference |-> preference],
                       dataset)
                 EXCEPT !.alg = "vtkThreshold", !.input = <<dataset.id>>]
        a  == ArrayOf(dataset, scalars, preference)
    IN  IF ~a.ok THEN Raise(r0, "ResolutionError")
        ELSE LET r1 == [r0 EXCEPT !.array = <<a.field, a.name>>,
                                  !.continuous = <<continuous>>]
                 r2 == SetThresholdMode(r1, value, invert)
             IN  IF r2.status # "ok" THEN r2 ELSE UpdateAndWrap(r2)

\* PointDataOnly with the test left out
PointDataOnly_AnyLocation(field) == field \in {POINT_DATA, CELL_DATA}

\* if field != 0: raise RuntimeError('Can only contour by Point data ...')
PointDataOnly(field) == field = POINT_DATA

\* for i, val in enumerate(isosurfaces): alg.SetValue(i, val)
\* (entry i of the algorithm's table is position i + 1 of the sequence)
RECURSIVE SetValueLoop(_, _, _)
SetValueLoop(table, isosurfaces, i) ==
    IF i >= Len(isosurfaces) THEN table
    ELSE SetValueLoop([table EXCEPT ![i + 1] = isosurfaces[i + 1]], isosurfaces, i + 1)

\* The names bound while the body of contour runs (its parameters and
\* locals), with their values where the model needs them.  The module's
\* globals are collections, np, vtk, get_scalar, wrap, NORMALS,
\* _generate_plane, DataSetFilters and PointSetFilters.
ContourNames(isosurfaces) ==
    ("isosurfaces" :> isosurfaces)

\* The isosurfaces dispatch of contour.  Its second test reads the name
\* `value`, which contour never binds: reading it raises NameError.
SetIsosurfaces(r, dataset, isosurfaces, scalars) ==
    LET names == ContourNames(isosurfaces)
    IN  IF isosurfaces.kind = "int"
        THEN [r EXCEPT !.generate = <<isosurfaces.n, get_data_range(dataset, scalars)>>]
        ELSE IF "value" \notin DOMAIN names
        THEN Raise(r, "NameError")
        ELSE IF names["value"].kind = "seq"
        THEN [r EXCEPT !.ncontours = <<Len(isosurfaces.s)>>,
                       !.values = SetValueLoop([i \in 1..Len(isosurfaces.s) |-> 0],
                                               isosurfaces.s, 0)]
        ELSE Raise(r, "InvalidIsosurfaceSpec")

\* contour with the commented-out
\* dataset.set_active_scalar(scalars, preference=preference) enabled: the
\* array contoured by becomes the dataset's active array
contour_SetActiveScalar(dataset, isosurfaces, scalars, compute_normals, compute_gradients, compute_scalars, preference) ==
    LET a  == ArrayOf(dataset, scalars, preference)
        d  == IF a.ok THEN [dataset EXCEPT !.active = <<a.field, a.name>>] ELSE dataset
        r0 == [NewCall("contour",
                       [isosurfaces |-> isosurfaces, scalars |-> scalars,
                        compute |-> <<compute_normals, compute_gradients, compute_scalars>>,
                        preference |-> preference],
                       d)
                 EXCEPT !.alg = "vtkContourFilter", !.input = <<dataset.id>>,
                        !.compute = <<compute_normals, compute_gradients, compute_scalars>>]
    IN  IF ~a.ok THEN Raise(r0, "ResolutionError")
        ELSE IF ~PointDataOnly(a.field) THEN Raise(r0, "UnsupportedLocation")
        ELSE LET r1 == [r0 EXCEPT !.array = <<a.field, a.name>>]
                 r2 == SetIsosurfaces(r1, dataset, isosurfaces, a.name)
             IN  IF r2.status # "ok" THEN r2 ELSE UpdateAndWrap(r2)

contour(dataset, isosurfaces, scalars, compute_normals, compute_gradients, compute_scalars, preference) ==
    LET r0 == [NewCall("contour",
                       [isosurfaces |-> isosurfaces, scalars |-> scalars,
                        compute |-> <<compute_normals, compute_gradients, compute_scalars>>,
                        preference |-> preference],
                       dataset)
                 EXCEPT !.alg = "vtkContourFilter", !.input = <<dataset.id>>,
                        !.compute = <<compute_normals, compute_gradients, compute_scalars>>]
        a  == ArrayOf(dataset, scalars, preference)
    IN  IF ~a.ok THEN Raise(r0, "ResolutionError")
        ELSE IF ~PointDataOnly(a.field) THEN Raise(r0, "UnsupportedLocation")
        ELSE LET r1 == [r0 EXCEPT !.array = <<a.field, a.name>>]
                 r2 == SetIsosurfaces(r1, dataset, isosurfaces, a.name)
             IN  IF r2.status # "ok" THEN r2 ELSE UpdateAndWrap(r2)

\* -------------------------------------------------------------------------
\* The state machine: a caller applies filters to its dataset
\* -------------------------------------------------------------------------

NoCall == NewCall("none", [none |-> TRUE], [id |-> 0])

Init ==
    /\ mesh \in Datasets
    /\ mesh0 = mesh
    /\ last = [NoCall EXCEPT !.dataset = mesh]
    /\ nobjs = 0

\* The call r has run: the dataset is as the call left it, and a returned
\* object is one more live object.
Commit(r) ==
    /\ last' = r
    /\ mesh' = r.dataset
    /\ nobjs' = IF r.out # <<>> THEN nobjs + 1 ELSE nobjs
    /\ UNCHANGED mesh0

Clip ==
    /\ nobjs < MaxObjs
    /\ \E normal \in NormalArgs, origin \in OriginArgs, invert \in BOOLEAN :
          Commit(clip(mesh, normal, origin, invert))

Slice ==
    /\ nobjs < MaxObjs
    /\ \E normal \in NormalArgs, origin \in OriginArgs :
          Commit(slice(mesh, normal, origin))

Threshold ==
    /\ nobjs < MaxObjs
    /\ \E value \in ValueArgs, a \in ArrayArgs, invert \in BOOLEAN, continuous \in BOOLEAN :
          Commit(threshold(mesh, value, a[1], invert, continuous, a[2]))

Contour ==
    /\ nobjs < MaxObjs
    /\ \E isosurfaces \in IsoArgs, a \in ArrayArgs, c \in ComputeFlags :
          Commit(contour(mesh, isosurfaces, a[1], c[1], c[2], c[3], a[2]))

Next == Clip \/ Slice \/ Threshold \/ Contour

Spec == Init /\ [][Next]_vars

\* -------------------------------------------------------------------------
\* Properties
\* -------------------------------------------------------------------------

IsThreshold == last.op = "threshold"
IsContour == last.op = "contour"
IsPlaneFilter == last.op \in {"clip", "slice"}

\* the array the last threshold / contour call resolved
LastArray == ArrayOf(mesh0, last.args.scalars, last.args.preference)
LastPointArray == LastArray.ok /\ LastArray.field = POINT_DATA

\* The documented shortcuts, in any letter case, and their vectors, written
\* without the table: an optional minus sign and an axis letter.
AxisLetter(c) == c \in {"x", "X", "y", "Y", "z", "Z"}
IsAxisShortcut(s) ==
    \/ Len(s) = 1 /\ AxisLetter(s[1])
    \/ Len(s) = 2 /\ s[1] = "-" /\ AxisLetter(s[2])
AxisVector(s) ==
    LET c == s[Len(s)]
        k == IF c \in {"x", "X"} THEN 1 ELSE IF c \in {"y", "Y"} THEN 2 ELSE 3
        sign == IF Len(s) = 2 THEN -1 ELSE 1
    IN  [i \in 1..3 |-> IF i = k THEN sign ELSE 0]

\* C1: contour with an explicit sequence of isosurface values and a
\* point-located resolved array succeeds: the number of contours is the
\* length of the sequence, value i is its i-th element, the algorithm is
\* executed once and its wrapped output is returned.
C1_ExplicitValuesAreSet ==
    (IsContour /\ last.args.isosurfaces.kind = "seq" /\ LastPointArray)
        => /\ last.status = "ok"
           /\ last.ncontours = <<Len(last.args.isosurfaces.s)>>
           /\ last.values = last.args.isosurfaces.s
           /\ last.updates = 1
           /\ last.out # <<>>

\* C2: contour with isosurfaces neither an integer nor a sequence and a
\* point-located resolved array fails with InvalidIsosurfaceSpec
\* ('isosurfaces not understood') and with no other error.
C2_OtherShapeIsInvalidIsosurfaceSpec ==
    (IsContour /\ last.args.isosurfaces.kind = "other" /\ LastPointArray)
        => last.status = "InvalidIsosurfaceSpec"

\* the one mode the shape of value and the invert flag select
ExpectedMode(value, invert) ==
    IF value.kind = "seq" THEN <<"between", value.s[1], value.s[2]>>
    ELSE IF invert THEN <<"lower", value.n>>
    ELSE <<"upper", value.n>>

\* value is a scalar or a two-element sequence
SelectsMode(value) == value.kind = "scalar" \/ Len(value.s) = 2

\* C3: threshold selects exactly one mode from the shape of value and the
\* invert flag: [a,b] selects between(a,b), a scalar v selects by-lower(v)
\* with invert and by-upper(v) without; no call configures more than one
\* mode.  (A call that fails before the dispatch configures none.)
C3_ThresholdSelectsOneMode ==
    IsThreshold =>
        /\ Len(last.modes) <= 1
        /\ last.modes # <<>> =>
              /\ SelectsMode(last.args.value)
              /\ last.modes = <<ExpectedMode(last.args.value, last.args.invert)>>
        /\ last.status = "ok" => Len(last.modes) = 1
        /\ (LastArray.ok /\ SelectsMode(last.args.value)) => last.status = "ok"

C3_Witness ==
    /\ IsThreshold
    /\ last.args.value.kind = "scalar"
    /\ last.args.invert
    /\ last.status = "ok"
    /\ last.modes = <<<<"lower", last.args.value.n>>>>

BadRange == IsThreshold /\ last.args.value.kind = "seq" /\ Len(last.args.value.s) # 2

\* C4 as stated: threshold with a sequence value of length other than 2
\* fails with InvalidRange, whatever invert and continuous are, and no mode
\* is set or executed.
C4_BadRangeIsInvalidRange ==
    BadRange => /\ last.status = "InvalidRange"
                /\ last.modes = <<>>
                /\ last.updates = 0

\* C4 amended: threshold with a sequence value of length other than 2 fails,
\* whatever invert and continuous are, and no mode is set or executed; the
\* error is InvalidRange when the array to threshold by resolves, and is the
\* error propagated from array resolution otherwise.
C4_BadRangeFails ==
    BadRange => /\ last.status = IF LastArray.ok THEN "InvalidRange" ELSE "ResolutionError"
                /\ last.modes = <<>>
                /\ last.updates = 0

C4_Witness ==
    /\ BadRange
    /\ Len(last.args.value.s) = 3
    /\ last.args.invert
    /\ last.status = "InvalidRange"

\* C5: contour fails with UnsupportedLocation exactly when the resolved
\* array location is not point data, for every isosurfaces argument; the
\* resolved location is the active array's when scalars is omitted and the
\* one found by name, with preference as tie-break, otherwise.
C5_UnsupportedLocationIffNotPoint ==
    IsContour =>
        (last.status = "UnsupportedLocation"
            <=> (LastArray.ok /\ LastArray.field # POINT_DATA))

C5_Witness ==
    /\ IsContour
    /\ last.args.scalars.given
    /\ last.args.preference = "cell"
    /\ <<POINT_DATA, last.args.scalars.name>> \in mesh.arrays
    /\ <<CELL_DATA, last.args.scalars.name>> \in mesh.arrays
    /\ last.args.isosurfaces.kind = "seq"
    /\ last.status = "UnsupportedLocation"

\* C6: for clip and slice alike the plane given to the algorithm is
\* (normal', origin'): normal' the documented vector of the shortcut when
\* normal is a shortcut string in any letter case and the given triple
\* otherwise; origin' the dataset's center when origin is omitted and the
\* given origin otherwise.
C6_PlaneIsResolved ==
    (IsPlaneFilter /\ (last.args.normal.kind = "vec" \/ IsAxisShortcut(last.args.normal.s)))
        => /\ last.status = "ok"
           /\ last.plane =
                << IF last.args.normal.kind = "str"
                   THEN AxisVector(last.args.normal.s)
                   ELSE last.args.normal.v,
                   IF last.args.origin.given THEN last.args.origin.p ELSE mesh0.center >>

C6_Witness ==
    /\ last.op = "clip"
    /\ last.args.normal.kind = "str"
    /\ last.args.normal.s = <<"-", "Y">>
    /\ ~last.args.origin.given
    /\ last.plane = << <<0, -1, 0>>, mesh.center >>

\* C7: clip and slice with a string normal that, lower-cased, is none of the
\* six keys fail with UnknownShortcut before any plane or algorithm object
\* is built, whether or not an origin was given.
C7_UnknownShortcutFailsFirst ==
    (IsPlaneFilter /\ last.args.normal.kind = "str" /\ ~IsAxisShortcut(last.args.normal.s))
        => /\ last.status = "UnknownShortcut"
           /\ last.alg = ""
           /\ last.plane = <<>>
           /\ last.updates = 0
           /\ last.out = <<>>

C7_Witness ==
    /\ last.op = "slice"
    /\ last.args.normal.kind = "str"
    /\ last.args.normal.s = <<"w">>
    /\ last.args.origin.given
    /\ last.status = "UnknownShortcut"

\* C8: after any sequence of clip, slice, threshold and contour calls,
\* successful or failed, the dataset's geometry, arrays and active array are
\* as before the sequence, and every successful call returns an object
\* created by that call, which is not the input dataset.
C8_InputUntouchedOutputFresh ==
    /\ mesh = mesh0
    /\ last.dataset = mesh0
    /\ last.status = "ok" /\ last.op # "none" =>
          /\ last.out = <<nobjs>>
          /\ last.out # <<mesh.id>>
          /\ last.out # last.input

C8_Witness ==
    /\ nobjs >= 1
    /\ IsContour
    /\ last.args.scalars.given
    /\ last.array # <<>>
    /\ last.array # mesh.active
    /\ last.status # "ok"

\* C9: in every filter a failure is raised before the algorithm is executed:
\* a failed call never executes the algorithm, never calls the wrapping
\* function and returns no object; no call executes the algorithm twice.
C9_FailureBeforeExecution ==
    /\ last.status # "ok" => (last.updates = 0 /\ last.wraps = 0 /\ last.out = <<>>)
    /\ last.updates <= 1
    /\ last.wraps <= 1
    /\ last.status = "ok" /\ last.op # "none" => (last.updates = 1 /\ last.wraps = 1)

C9_Witness ==
    /\ IsThreshold
    /\ last.status = "InvalidRange"
    /\ last.alg = "vtkThreshold"
    /\ last.updates = 0

\* what a threshold call configured and how it ended
Configured(r) ==
    <<r.status, r.alg, r.input, r.array, r.continuous, r.modes, r.invert, r.updates>>

\* C10: in range mode invert has no effect on threshold: for a two-element
\* value [a,b] the calls with invert true and invert false configure the
\* algorithm identically (between(a,b)) and end alike.
C10_InvertIgnoredInRangeMode ==
    (IsThreshold /\ last.args.value.kind = "seq" /\ Len(last.args.value.s) = 2)
        => LET a == last.args
               t == threshold(mesh, a.value, a.scalars, TRUE, a.continuous, a.preference)
               f == threshold(mesh, a.value, a.scalars, FALSE, a.continuous, a.preference)
           IN  /\ Configured(t) = Configured(f)
               /\ Configured(last) = Configured(t)
               /\ LastArray.ok =>
                     /\ last.status = "ok"
                     /\ last.modes = <<<<"between", a.value.s[1], a.value.s[2]>>>>
                     /\ last.invert = <<>>

C10_Witness ==
    /\ IsThreshold
    /\ last.args.value.kind = "seq"
    /\ last.args.value.s = <<2, 1>>
    /\ last.args.invert
    /\ last.status = "ok"
    /\ last.modes = <<<<"between", 2, 1>>>>

====
